---- MODULE Spec2Model ----
(***************************************************************************)
(* A model of convert_summary.py: the Markdown block scanner of            *)
(* parse_markdown_to_pdf, parse_table and format_inline.                   *)
(*                                                                         *)
(* Text is a sequence of one-character strings.  A line is modelled        *)
(* without its line terminator; the cursor i keeps the 0-based indexing    *)
(* of the source, so that the source's lines[i] is lines[i + 1] here.      *)
(***************************************************************************)
EXTENDS Integers, Sequences, FiniteSets, TLC

(***************************************************************************)
(* Bounds of the model.                                                    *)
(***************************************************************************)
MaxLines == 3
MaxTokens == 3

(***************************************************************************)
(* String primitives of Python used by the source.                         *)
(***************************************************************************)
Whitespace == {" ", "\t", "\n", "\r"}

\* the backquote character (a TLA+ string cannot hold it)
Backtick == "BQ"

RECURSIVE rstrip(_)
rstrip(s) ==
  IF s # <<>> /\ s[Len(s)] \in Whitespace
    THEN rstrip(SubSeq(s, 1, Len(s) - 1))
    ELSE s

RECURSIVE lstrip(_)
lstrip(s) ==
  IF s # <<>> /\ s[1] \in Whitespace
    THEN lstrip(Tail(s))
    ELSE s

strip(s) == lstrip(rstrip(s))

\* s[k:k+len(p)] == p, for a 1-based position k
MatchAt(s, p, k) ==
  /\ k >= 1
  /\ k + Len(p) - 1 <= Len(s)
  /\ \A j \in 1..Len(p) : s[k + j - 1] = p[j]

startswith(s, p) == MatchAt(s, p, 1)

\* p in s
Contains(s, p) == \E k \in 1..Len(s) : MatchAt(s, p, k)

\* s[n:]
DropFirst(s, n) == SubSeq(s, n + 1, Len(s))

\* the least position >= k at which the non-empty p occurs in s, 0 when
\* there is none
RECURSIVE FindFrom(_, _, _)
FindFrom(s, p, k) ==
  IF k + Len(p) - 1 > Len(s) THEN 0
  ELSE IF MatchAt(s, p, k) THEN k
  ELSE FindFrom(s, p, k + 1)

Find(s, p, k) ==
  IF \A j \in k..Len(s) : s[j] # p[1] THEN 0 ELSE FindFrom(s, p, k)

\* s.replace(old, new): leftmost, non-overlapping occurrences
RECURSIVE Replace(_, _, _)
Replace(s, old, new) ==
  LET k == Find(s, old, 1)
  IN  IF k = 0 THEN s
      ELSE SubSeq(s, 1, k - 1) \o new
             \o Replace(DropFirst(s, k + Len(old) - 1), old, new)

\* s.split(sep) for a one-character separator: always at least one field
RECURSIVE Split(_, _)
Split(s, sep) ==
  LET k == Find(s, <<sep>>, 1)
  IN  IF k = 0 THEN <<s>>
      ELSE <<SubSeq(s, 1, k - 1)>> \o Split(DropFirst(s, k), sep)

\* sep.join(parts)
RECURSIVE Join(_, _)
Join(parts, sep) ==
  IF parts = <<>> THEN <<>>
  ELSE IF Len(parts) = 1 THEN parts[1]
  ELSE parts[1] \o sep \o Join(Tail(parts), sep)

\* re.sub(d(.+?)d, open \1 close, s): the match starts at the leftmost
\* occurrence k of the delimiter d after which d occurs again with at least
\* one character in between, and ends with the nearest such occurrence q;
\* the scan goes on after the closing delimiter.  When d does not occur
\* again after k, it does not after any later position either.
RECURSIVE SubSpan(_, _, _, _)
SubSpan(s, d, open, close) ==
  LET k == Find(s, d, 1)
      q == IF k = 0 THEN 0 ELSE Find(s, d, k + Len(d) + 1)
  IN  IF q = 0 THEN s
      ELSE SubSeq(s, 1, k - 1) \o open \o SubSeq(s, k + Len(d), q - 1) \o close
             \o SubSpan(DropFirst(s, q + Len(d) - 1), d, open, close)

(***************************************************************************)
(* The tag vocabulary of format_inline.                                    *)
(***************************************************************************)
Amp == <<"&", "a", "m", "p", ";">>
Lt == <<"&", "l", "t", ";">>
Gt == <<"&", "g", "t", ";">>
BOpen == <<"<", "b", ">">>
BClose == <<"<", "/", "b", ">">>
IOpen == <<"<", "i", ">">>
IClose == <<"<", "/", "i", ">">>
FontWord == <<"f", "o", "n", "t">>
FontAttrs ==
  <<" ", "f", "a", "c", "e", "=", "\"", "C", "o", "u", "r", "i", "e", "r", "\"",
    " ", "s", "i", "z", "e", "=", "\"", "9", "\"",
    " ", "c", "o", "l", "o", "r", "=", "\"", "#", "c", "0", "3", "9", "2", "b", "\"">>
FontOpen == <<"<">> \o FontWord \o FontAttrs \o <<">">>
FontClose == <<"<", "/">> \o FontWord \o <<">">>

\* re.sub(&lt;(font[^&]*)&gt;, <\1>, s): [^&]* runs up to the next '&',
\* which has to start the closing &gt;
RECURSIVE SubFont(_)
SubFont(s) ==
  LET head == Lt \o FontWord
      k == Find(s, head, 1)
      q == IF k = 0 THEN 0 ELSE Find(s, <<"&">>, k + Len(head))
  IN  IF k = 0 THEN s
      ELSE IF q # 0 /\ MatchAt(s, Gt, q)
        THEN SubSeq(s, 1, k - 1) \o <<"<">> \o SubSeq(s, k + Len(Lt), q - 1) \o <<">">>
               \o SubFont(DropFirst(s, q + Len(Gt) - 1))
        ELSE SubSeq(s, 1, k) \o SubFont(DropFirst(s, k))

\* steps 1-5 of format_inline: '&' escaped, then the four span rewrites
format_spans(text) ==
  LET t1 == Replace(text, <<"&">>, Amp)
      t2 == SubSpan(t1, <<"*", "*", "*">>, BOpen \o IOpen, IClose \o BClose)
      t3 == SubSpan(t2, <<"*", "*">>, BOpen, BClose)
      t4 == SubSpan(t3, <<"*">>, IOpen, IClose)
  IN  SubSpan(t4, <<Backtick>>, FontOpen, FontClose)

\* steps 6-7 of format_inline: escape every angle bracket, then turn the
\* escaped tag vocabulary back into tags
format_unescape(text) ==
  LET t6 == Replace(Replace(text, <<"<">>, Lt), <<">">>, Gt)
      t7 == Replace(Replace(t6, Lt \o <<"b">> \o Gt, BOpen),
                    Lt \o <<"/", "b">> \o Gt, BClose)
      t8 == Replace(Replace(t7, Lt \o <<"i">> \o Gt, IOpen),
                    Lt \o <<"/", "i">> \o Gt, IClose)
      t9 == Replace(t8, Lt \o <<"/">> \o FontWord \o Gt, FontClose)
  IN  SubFont(t9)

format_inline(text) == format_unescape(format_spans(text))

(***************************************************************************)
(* Inputs of format_inline: concatenations of at most MaxTokens tokens.    *)
(***************************************************************************)
Tokens ==
  { <<"*">>, <<"*", "*">>, <<"*", "*", "*">>, <<Backtick>>, <<"<">>, <<">">>,
    <<"/">>, <<"&">>, <<"b">>, <<"i">>, FontWord, <<" ">> }

RECURSIVE Concat(_)
Concat(parts) == IF parts = <<>> THEN <<>> ELSE parts[1] \o Concat(Tail(parts))

RawTexts ==
  UNION { { Concat(ts) : ts \in [1..n -> Tokens] } : n \in 0..MaxTokens }

(***************************************************************************)
(* Input documents of the scanner: at most MaxLines lines, each one of the *)
(* line shapes below.                                                      *)
(***************************************************************************)
LinePool ==
  { <<" ">>,                                          \* blank once trimmed
    <<"#", " ", " ", "*", "a", "*", " ">>,            \* '#  *a* '
    <<"#", "#", " ", "a", "|", "b">>,                 \* '## a|b'
    <<"#", "#", "#", " ", "a">>,                      \* '### a'
    <<"#", "#", "#", "#", " ", "a", "|", "b">>,       \* '#### a|b'
    <<"-", "-", "-">>,                                \* '---'
    <<Backtick, Backtick, Backtick>>,                 \* a fence
    <<" ", Backtick, Backtick, Backtick>>,            \* an indented fence
    <<"a", "|", "b", "|", "c">>,                      \* 'a|b|c'
    <<"|", " ", "a", " ", "|", "b", "|">>,            \* '| a |b|'
    <<"|", "-", "-", "-", "|">>,                      \* '|---|'
    <<"-", " ", "a", "|", "b">> }                     \* '- a|b'

Documents == UNION { [1..n -> LinePool] : n \in 0..MaxLines }

VARIABLES
  lines,   \* the list read by f.readlines()
  i,       \* the cursor of the scanning loop
  story,   \* the flowables appended so far
  pc,      \* "scan", "done" (loop left, doc.build reached), "error" (an
           \* exception left the loop), or "inline" / "formatted"
  trace,   \* history: one record per iteration of the loop
  raw,     \* the argument of a direct call of format_inline
  out      \* its result

vars == <<lines, i, story, pc, trace, raw, out>>

Fence == <<Backtick, Backtick, Backtick>>
Dashes == <<"-", "-", "-">>
Pipe == <<"|">>
Bullet == <<"&", "b", "u", "l", "l", ";", " ">>
Newline == <<"\n">>

\* the flowables of reportlab that the scanner builds; src is the value of
\* the cursor at the start of the iteration that built them
Paragraph(text, style, src) ==
  [kind |-> "Paragraph", style |-> style, text |-> text, rows |-> <<>>, src |-> src]

Spacer(src) ==
  [kind |-> "Spacer", style |-> "", text |-> <<>>, rows |-> <<>>, src |-> src]

HRFlowable(src) ==
  [kind |-> "HRFlowable", style |-> "", text |-> <<>>, rows |-> <<>>, src |-> src]

Preformatted(text, style, src) ==
  [kind |-> "Preformatted", style |-> style, text |-> text, rows |-> <<>>, src |-> src]

Table(table_data, src) ==
  [kind |-> "Table", style |-> "", text |-> <<>>, rows |-> table_data, src |-> src]

\* faulty variant of Classify: the list-item test placed before the table test
ClassifyListFirst(ls, k) ==
  LET line == rstrip(ls[k + 1])
  IN  IF line = <<>> THEN "Blank"
      ELSE IF startswith(line, <<"#", " ">>) THEN "Title"
      ELSE IF startswith(line, <<"#", "#", " ">>) THEN "SectionHeading"
      ELSE IF startswith(line, <<"#", "#", "#", " ">>) THEN "SubHeading"
      ELSE IF strip(line) = Dashes THEN "Rule"
      ELSE IF startswith(line, Fence) THEN "CodeBlock"
      ELSE IF startswith(line, <<"-", " ">>) THEN "ListItem"
      ELSE IF /\ Contains(line, Pipe)
              /\ k + 1 < Len(ls)
              /\ Contains(ls[k + 2], Dashes) THEN "Table"
      ELSE "Paragraph"

\* the if-chain of the loop body: the branch taken for line k (0-based) of ls
Classify(ls, k) ==
  LET line == rstrip(ls[k + 1])
  IN  IF line = <<>> THEN "Blank"
      ELSE IF startswith(line, <<"#", " ">>) THEN "Title"
      ELSE IF startswith(line, <<"#", "#", " ">>) THEN "SectionHeading"
      ELSE IF startswith(line, <<"#", "#", "#", " ">>) THEN "SubHeading"
      ELSE IF strip(line) = Dashes THEN "Rule"
      ELSE IF startswith(line, Fence) THEN "CodeBlock"
      ELSE IF /\ Contains(line, Pipe)
              /\ k + 1 < Len(ls)
              /\ Contains(ls[k + 2], Dashes) THEN "Table"
      ELSE IF startswith(line, <<"-", " ">>) THEN "ListItem"
      ELSE "Paragraph"

\* faulty variant of FenceEnd: the closing fence tested without strip()
RECURSIVE FenceEndNoStrip(_, _)
FenceEndNoStrip(ls, k) ==
  IF k < Len(ls) /\ ~startswith(ls[k + 1], Fence)
    THEN FenceEndNoStrip(ls, k + 1)
    ELSE k

\* where the inner loop of the code-fence branch stops, started at k
RECURSIVE FenceEnd(_, _)
FenceEnd(ls, k) ==
  IF k < Len(ls) /\ ~startswith(strip(ls[k + 1]), Fence)
    THEN FenceEnd(ls, k + 1)
    ELSE k

\* faulty variant of TableEnd: after the header, the collection also stops at a
\* line containing '---'
RECURSIVE PipeEndBeforeDashes(_, _)
PipeEndBeforeDashes(ls, k) ==
  IF k < Len(ls) /\ Contains(ls[k + 1], Pipe) /\ ~Contains(ls[k + 1], Dashes)
    THEN PipeEndBeforeDashes(ls, k + 1)
    ELSE k

TableEndStopsAtSeparator(ls, k) == PipeEndBeforeDashes(ls, k + 1)

\* where the inner loop of the table branch stops, started at k
RECURSIVE TableEnd(_, _)
TableEnd(ls, k) ==
  IF k < Len(ls) /\ Contains(ls[k + 1], Pipe)
    THEN TableEnd(ls, k + 1)
    ELSE k

\* [c.strip() for c in line.split('|')[1:-1]]
Cells(line) ==
  LET fields == Split(line, "|")
      inner == SubSeq(fields, 2, Len(fields) - 1)
  IN  [c \in 1..Len(inner) |-> strip(inner[c])]

FormatRow(cells) == [c \in 1..Len(cells) |-> format_inline(cells[c])]

\* the body of parse_table for a given least number of lines
ParseTableFrom(least, table_lines, src) ==
  IF Len(table_lines) < least THEN [result |-> "None"]
  ELSE LET header_cells == Cells(table_lines[1])
           data_rows == [r \in 1..Len(table_lines) - 2 |-> Cells(table_lines[r + 2])]
           table_data == <<FormatRow(header_cells)>>
                           \o [r \in 1..Len(data_rows) |-> FormatRow(data_rows[r])]
           num_cols == Len(header_cells)
       IN  IF num_cols = 0 THEN [result |-> "ZeroDivisionError"]
           ELSE [result |-> "Table", table |-> Table(table_data, src)]

\* faulty variant of parse_table: a header and a separator are enough
parse_table_two_lines(table_lines, src) == ParseTableFrom(2, table_lines, src)

\* parse_table: None, a Table, or the ZeroDivisionError of
\* available_width / num_cols when the header has no cell
parse_table(table_lines, src) == ParseTableFrom(3, table_lines, src)

Init ==
  /\ lines \in Documents
  /\ i = 0
  /\ story = <<>>
  /\ pc = "scan"
  /\ trace = <<>>
  /\ raw = <<>>
  /\ out = <<>>

\* the loop is at its head with a line to examine, of the given kind
At(kind) ==
  /\ pc = "scan"
  /\ i < Len(lines)
  /\ Classify(lines, i) = kind

line == rstrip(lines[i + 1])

\* one iteration: the cursor moves to `to`, `elems` are appended
Iterate(kind, to, used, elems) ==
  /\ i' = to
  /\ story' = story \o elems
  /\ trace' = Append(trace, [kind |-> kind, from |-> i, to |-> to,
                             used |-> used, emitted |-> Len(elems)])
  /\ UNCHANGED <<lines, raw, out>>

BlankStep ==
  /\ At("Blank")
  /\ Iterate("Blank", i + 1, {i}, <<>>)
  /\ UNCHANGED pc

\* faulty variant of TitleStep: only the '#' is cut, line[1:]
TitleStepKeepSpace ==
  /\ At("Title")
  /\ Iterate("Title", i + 1, {i},
             <<Paragraph(format_inline(DropFirst(line, 1)), "DocTitle", i)>>)
  /\ UNCHANGED pc

TitleStep ==
  /\ At("Title")
  /\ Iterate("Title", i + 1, {i},
             <<Paragraph(format_inline(DropFirst(line, 2)), "DocTitle", i)>>)
  /\ UNCHANGED pc

SectionStep ==
  /\ At("SectionHeading")
  /\ Iterate("SectionHeading", i + 1, {i},
             <<Spacer(i), HRFlowable(i),
               Paragraph(format_inline(DropFirst(line, 3)), "H2", i)>>)
  /\ UNCHANGED pc

SubHeadingStep ==
  /\ At("SubHeading")
  /\ Iterate("SubHeading", i + 1, {i},
             <<Paragraph(format_inline(DropFirst(line, 4)), "H3", i)>>)
  /\ UNCHANGED pc

RuleStep ==
  /\ At("Rule")
  /\ Iterate("Rule", i + 1, {i}, <<Spacer(i), HRFlowable(i), Spacer(i)>>)
  /\ UNCHANGED pc

\* faulty variant of CodeFenceStep: the i += 1 after the inner loop is missing
CodeFenceStepNoSkip ==
  /\ At("CodeBlock")
  /\ LET stop == FenceEnd(lines, i + 1)
         code_lines == [j \in 1..stop - (i + 1) |-> rstrip(lines[i + 1 + j])]
         code_text == Join(code_lines, Newline)
     IN  Iterate("CodeBlock", stop, {k \in i..stop : k < Len(lines)},
                 <<Preformatted(code_text, "CodeBlock", i)>>)
  /\ UNCHANGED pc

CodeFenceStep ==
  /\ At("CodeBlock")
  /\ LET stop == FenceEnd(lines, i + 1)
         code_lines == [j \in 1..stop - (i + 1) |-> rstrip(lines[i + 1 + j])]
         code_text == Join(code_lines, Newline)
     IN  Iterate("CodeBlock", stop + 1, {k \in i..stop : k < Len(lines)},
                 <<Preformatted(code_text, "CodeBlock", i)>>)
  /\ UNCHANGED pc

TableStep ==
  /\ At("Table")
  /\ LET stop == TableEnd(lines, i)
         table_lines == [j \in 1..stop - i |-> rstrip(lines[i + j])]
         res == parse_table(table_lines, i)
     IN  /\ Iterate("Table", stop, i..(i + Len(table_lines) - 1),
                    IF res.result = "Table"
                      THEN <<Spacer(i), res.table, Spacer(i)>>
                      ELSE <<>>)
         /\ pc' = IF res.result = "ZeroDivisionError" THEN "error" ELSE pc

ListItemStep ==
  /\ At("ListItem")
  /\ Iterate("ListItem", i + 1, {i},
             <<Paragraph(Bullet \o format_inline(DropFirst(line, 2)), "BulletItem", i)>>)
  /\ UNCHANGED pc

ParagraphStep ==
  /\ At("Paragraph")
  /\ Iterate("Paragraph", i + 1, {i},
             <<Paragraph(format_inline(line), "BodyText2", i)>>)
  /\ UNCHANGED pc

\* the loop condition fails: doc.build(story) is reached
Finish ==
  /\ pc = "scan"
  /\ i >= Len(lines)
  /\ pc' = "done"
  /\ UNCHANGED <<lines, i, story, trace, raw, out>>

Next ==
  \/ BlankStep
  \/ TitleStep
  \/ SectionStep
  \/ SubHeadingStep
  \/ RuleStep
  \/ CodeFenceStep
  \/ TableStep
  \/ ListItemStep
  \/ ParagraphStep
  \/ Finish

Spec == Init /\ [][Next]_vars

(***************************************************************************)
(* Direct calls of format_inline.                                          *)
(***************************************************************************)
InitInline ==
  /\ raw \in RawTexts
  /\ out = <<>>
  /\ pc = "inline"
  /\ lines = <<>>
  /\ i = 0
  /\ story = <<>>
  /\ trace = <<>>

FormatInlineCall ==
  /\ pc = "inline"
  /\ out' = format_inline(raw)
  /\ pc' = "formatted"
  /\ UNCHANGED <<raw, lines, i, story, trace>>

NextInline == FormatInlineCall

SpecInline == InitInline /\ [][NextInline]_vars
(***************************************************************************)
(* Vocabulary of the properties.                                           *)
(***************************************************************************)
N == Len(lines)

Iterations == 1..Len(trace)

\* the trimmed text of line k (0-based), as the loop body sees it
Trimmed(k) == rstrip(lines[k + 1])

\* the flowables built by iteration t
Emitted(t) == SelectSeq(story, LAMBDA e : e.src = trace[t].from)

\* kind and style of each flowable built by iteration t
Shape(t) ==
  LET built == Emitted(t)
  IN  [e \in 1..Len(built) |-> <<built[e].kind, built[e].style>>]

\* line k is examined by the if-chain on some iteration
Examined(k) == \E t \in Iterations : trace[t].from = k

\* the table rule's condition on line k
TableRuleFires(k) ==
  /\ Contains(Trimmed(k), Pipe)
  /\ k + 1 < N
  /\ Contains(lines[k + 2], Dashes)

RuleOrder ==
  <<"Blank", "Title", "SectionHeading", "SubHeading", "Rule", "CodeBlock",
    "Table", "ListItem", "Paragraph">>

\* the condition of each rule taken alone
Matches(rule, k) ==
  CASE rule = "Blank" -> Trimmed(k) = <<>>
    [] rule = "Title" -> startswith(Trimmed(k), <<"#", " ">>)
    [] rule = "SectionHeading" -> startswith(Trimmed(k), <<"#", "#", " ">>)
    [] rule = "SubHeading" -> startswith(Trimmed(k), <<"#", "#", "#", " ">>)
    [] rule = "Rule" -> strip(Trimmed(k)) = Dashes
    [] rule = "CodeBlock" -> startswith(Trimmed(k), Fence)
    [] rule = "Table" -> TableRuleFires(k)
    [] rule = "ListItem" -> startswith(Trimmed(k), <<"-", " ">>)
    [] rule = "Paragraph" -> TRUE

\* the first rule of RuleOrder whose condition holds of line k
FirstRule(k) ==
  RuleOrder[CHOOSE r \in 1..Len(RuleOrder) :
              /\ Matches(RuleOrder[r], k)
              /\ \A q \in 1..(r - 1) : ~Matches(RuleOrder[q], k)]

\* what each rule appends to the story
ShapeOf(rule) ==
  CASE rule = "Blank" -> {<<>>}
    [] rule = "Title" -> {<< <<"Paragraph", "DocTitle">> >>}
    [] rule = "SectionHeading" ->
         {<< <<"Spacer", "">>, <<"HRFlowable", "">>, <<"Paragraph", "H2">> >>}
    [] rule = "SubHeading" -> {<< <<"Paragraph", "H3">> >>}
    [] rule = "Rule" ->
         {<< <<"Spacer", "">>, <<"HRFlowable", "">>, <<"Spacer", "">> >>}
    [] rule = "CodeBlock" -> {<< <<"Preformatted", "CodeBlock">> >>}
    [] rule = "Table" ->
         {<<>>, << <<"Spacer", "">>, <<"Table", "">>, <<"Spacer", "">> >>}
    [] rule = "ListItem" -> {<< <<"Paragraph", "BulletItem">> >>}
    [] rule = "Paragraph" -> {<< <<"Paragraph", "BodyText2">> >>}

(***************************************************************************)
(* C1: the block scan is total: whatever the input lines, the scanning     *)
(* loop, parse_table and format_inline included, never raises; a table     *)
(* start whose header has no cell still ends with a Table or no block.     *)
(* Stated as: no run reaches the error state.                              *)
(***************************************************************************)
C1_ScanNeverRaises == pc # "error"

(***************************************************************************)
(* C2: every examined line is handled by the first rule that matches it in *)
(* the order Blank > Title > SectionHeading > SubHeading > Rule >          *)
(* CodeBlock > Table > ListItem > Paragraph, and the flowables built are   *)
(* those of that rule.                                                     *)
(***************************************************************************)
C2_FirstMatchingRuleWins ==
  \A t \in Iterations :
    LET first == FirstRule(trace[t].from)
    IN  /\ trace[t].kind = first
        /\ Shape(t) \in ShapeOf(first)

\* a '- a|b' line before a '---' line was taken as a table start, and a
\* '---' line before a line without '|' was taken as a rule
C2_Witness ==
  /\ pc = "done"
  /\ \E t \in Iterations :
       /\ trace[t].kind = "Table"
       /\ startswith(Trimmed(trace[t].from), <<"-", " ">>)
  /\ \E t \in Iterations :
       /\ trace[t].kind = "Rule"
       /\ Trimmed(trace[t].from) = Dashes
       /\ trace[t].from + 1 < N
       /\ ~Contains(lines[trace[t].from + 2], Pipe)

(***************************************************************************)
(* C3: the flowables are in the order of the lines that define them, the   *)
(* line sets consumed by different iterations are disjoint, every line     *)
(* before the cursor is consumed by exactly one iteration and no line at   *)
(* or after it by any; once the loop is left normally that is every line.  *)
(***************************************************************************)
C3_OrderedAndDisjoint ==
  /\ \A a, b \in 1..Len(story) : a < b => story[a].src <= story[b].src
  /\ \A e \in 1..Len(story) :
       Cardinality({t \in Iterations : story[e].src \in trace[t].used}) = 1
  /\ \A s, t \in Iterations : s # t => trace[s].used \cap trace[t].used = {}
  /\ \A k \in 0..(N - 1) :
       Cardinality({t \in Iterations : k \in trace[t].used})
         = IF k < i THEN 1 ELSE 0
  /\ pc = "done" => UNION {trace[t].used : t \in Iterations} = 0..(N - 1)

\* a finished run of two iterations: a one-line block, then a code fence
\* that consumed its opening and its closing line
C3_Witness ==
  /\ pc = "done"
  /\ Len(trace) = 2
  /\ trace[1].used = {0}
  /\ trace[2].kind = "CodeBlock"
  /\ trace[2].used = {1, 2}
  /\ Len(story) = 2
(***************************************************************************)
(* C4 as stated: a code-fence start builds exactly one code block whose    *)
(* content is the lines strictly between the opening fence and the first   *)
(* later line whose trimmed form starts with a fence (or the end of the    *)
(* input), joined by newline, without inline formatting; no line up to and *)
(* including the closing fence is examined on its own, and the cursor      *)
(* resumes after the closing fence.                                        *)
(***************************************************************************)
IsClosingFence(k) == startswith(strip(lines[k + 1]), Fence)

\* the first line after the opening fence o that closes it, N if none does
FenceClose(o) ==
  CHOOSE c \in (o + 1)..N :
    /\ c = N \/ IsClosingFence(c)
    /\ \A j \in (o + 1)..(c - 1) : ~IsClosingFence(j)

\* the lines strictly between the opening fence o and its closing fence
Interior(o) == [j \in 1..(FenceClose(o) - o - 1) |-> lines[o + 1 + j]]

TrimmedInterior(o) == [j \in 1..(FenceClose(o) - o - 1) |-> rstrip(lines[o + 1 + j])]

FenceConsumed(t) ==
  /\ trace[t].to = FenceClose(trace[t].from) + 1
  /\ \A k \in (trace[t].from + 1)..FenceClose(trace[t].from) : ~Examined(k)

C4_CodeBlockIsInteriorLines ==
  \A t \in Iterations :
    trace[t].kind = "CodeBlock" =>
      /\ Emitted(t) = <<Preformatted(Join(Interior(trace[t].from), Newline),
                                     "CodeBlock", trace[t].from)>>
      /\ FenceConsumed(t)

(***************************************************************************)
(* C4 as amended: the content is those lines, each with its trailing       *)
(* whitespace removed, joined by newline; the rest as stated.              *)
(***************************************************************************)
C4_CodeBlockIsTrimmedInteriorLines ==
  \A t \in Iterations :
    trace[t].kind = "CodeBlock" =>
      /\ Emitted(t) = <<Preformatted(Join(TrimmedInterior(trace[t].from), Newline),
                                     "CodeBlock", trace[t].from)>>
      /\ FenceConsumed(t)

\* a closed fence around the line '#  *a* ', which stays as it is but for
\* its trailing space
C4_Witness ==
  /\ pc = "done"
  /\ \E t \in Iterations :
       /\ trace[t].kind = "CodeBlock"
       /\ FenceClose(trace[t].from) < N
       /\ Interior(trace[t].from) = << <<"#", " ", " ", "*", "a", "*", " ">> >>
       /\ Emitted(t)[1].text = <<"#", " ", " ", "*", "a", "*">>

(***************************************************************************)
(* C5: a table start that collects a header line, a separator line and     *)
(* k >= 1 data lines builds one Table whose header has as many cells as    *)
(* the header line has '|'-delimited fields, an empty leading and an empty *)
(* trailing field apart, and whose body has exactly k rows.  Stated for    *)
(* the table starts whose iteration did not end in the error of C1.        *)
(***************************************************************************)
\* the '|'-delimited fields of a line, an empty first and an empty last
\* field not counted
FieldCount(text) ==
  LET fields == Split(text, "|")
      lead == IF strip(fields[1]) = <<>> THEN 1 ELSE 0
      trail == IF Len(fields) > 1 /\ strip(fields[Len(fields)]) = <<>> THEN 1 ELSE 0
  IN  Len(fields) - lead - trail

\* the run of consecutive lines containing '|' that starts at line k
PipeRun(k) ==
  {j \in k..(N - 1) : \A m \in k..j : Contains(lines[m + 1], Pipe)}

\* iteration t ended with an exception
Raised(t) == t = Len(trace) /\ pc = "error"

C5_TableHasHeaderFieldsAndDataRows ==
  \A t \in Iterations :
    (/\ trace[t].kind = "Table"
     /\ Cardinality(PipeRun(trace[t].from)) >= 3
     /\ ~Raised(t)) =>
      /\ Len(Emitted(t)) = 3
      /\ Emitted(t)[2].kind = "Table"
      /\ Len(Emitted(t)[2].rows[1]) = FieldCount(Trimmed(trace[t].from))
      /\ Len(Emitted(t)[2].rows) - 1 = Cardinality(PipeRun(trace[t].from)) - 2

(***************************************************************************)
(* C6: when the table rule fires and fewer than three consecutive lines    *)
(* containing '|' are collected, the iteration builds no flowable at all,  *)
(* and the collected lines are consumed: the cursor moves past them and    *)
(* none of them is examined again.                                         *)
(***************************************************************************)
C6_ShortTableDropped ==
  \A t \in Iterations :
    (trace[t].kind = "Table" /\ Cardinality(PipeRun(trace[t].from)) < 3) =>
      /\ trace[t].emitted = 0
      /\ Emitted(t) = <<>>
      /\ trace[t].used = PipeRun(trace[t].from)
      /\ trace[t].to = trace[t].from + Cardinality(PipeRun(trace[t].from))
      /\ trace[t].to > trace[t].from
      /\ \A s \in Iterations : s # t => trace[s].from \notin PipeRun(trace[t].from)

\* a header and a piped separator were collected and dropped, and the line
\* after them was then handled
C6_Witness ==
  /\ pc = "done"
  /\ \E t \in Iterations :
       /\ trace[t].kind = "Table"
       /\ Cardinality(PipeRun(trace[t].from)) = 2
       /\ t < Len(trace)
       /\ story # <<>>
(***************************************************************************)
(* C7: format_inline keeps raw angle brackets as text: every '<' and '>'   *)
(* of the raw input comes out as an entity only, and every tag of the      *)
(* output was made from an asterisk or backtick span.  Stated as: the      *)
(* output holds exactly as many '<' (and '>') as the span rewrites put     *)
(* into the text.                                                          *)
(***************************************************************************)
Count(text, c) == Cardinality({k \in 1..Len(text) : text[k] = c})

\* the number of characters c that the span rewrites added to the text
Synthesized(text, c) == Count(format_spans(text), c) - Count(text, c)

C7_OnlySynthesizedTags ==
  pc = "formatted" =>
    /\ Count(out, "<") = Synthesized(raw, "<")
    /\ Count(out, ">") = Synthesized(raw, ">")

(***************************************************************************)
(* C8 as stated: a line starting with one, two or three '#' and a space    *)
(* builds exactly one Title, SectionHeading or SubHeading whose text is    *)
(* the inline-formatted line without the '#'-run and one space; a          *)
(* SectionHeading comes right after a spacer and a horizontal rule of the  *)
(* same iteration; a line starting with four or more '#' builds a          *)
(* Paragraph of the whole line.                                            *)
(***************************************************************************)
RECURSIVE LeadingHashes(_)
LeadingHashes(text) ==
  IF text # <<>> /\ text[1] = "#" THEN 1 + LeadingHashes(Tail(text)) ELSE 0

\* line k starts with exactly h '#' and then a space
IsHeading(k, h) ==
  /\ LeadingHashes(Trimmed(k)) = h
  /\ Len(Trimmed(k)) > h
  /\ Trimmed(k)[h + 1] = " "

HeadingText(k, h) == format_inline(DropFirst(Trimmed(k), h + 1))

HeadingBlocks(k, h) ==
  CASE h = 1 -> <<Paragraph(HeadingText(k, 1), "DocTitle", k)>>
    [] h = 2 -> <<Spacer(k), HRFlowable(k), Paragraph(HeadingText(k, 2), "H2", k)>>
    [] h = 3 -> <<Paragraph(HeadingText(k, 3), "H3", k)>>

WholeLineParagraph(k) == <<Paragraph(format_inline(Trimmed(k)), "BodyText2", k)>>

HeadingsBuilt(t) ==
  LET built == Emitted(t)
  IN  \A h \in 1..3 :
        IsHeading(trace[t].from, h) => built = HeadingBlocks(trace[t].from, h)

C8_HeadingsByExactCount ==
  \A t \in Iterations :
    /\ HeadingsBuilt(t)
    /\ LeadingHashes(Trimmed(trace[t].from)) >= 4 =>
         Emitted(t) = WholeLineParagraph(trace[t].from)

(***************************************************************************)
(* C8 as amended: the same, except that a line starting with four or more  *)
(* '#' builds a Paragraph of the whole line unless the table rule fires on *)
(* it (the line contains '|' and the next line contains '---'), in which   *)
(* case it is handled as a table start.                                    *)
(***************************************************************************)
C8_HeadingsByExactCountUnlessTable ==
  \A t \in Iterations :
    /\ HeadingsBuilt(t)
    /\ LeadingHashes(Trimmed(trace[t].from)) >= 4 =>
         IF TableRuleFires(trace[t].from)
           THEN trace[t].kind = "Table"
           ELSE Emitted(t) = WholeLineParagraph(trace[t].from)

\* a finished run that built a title, a section heading and the paragraph
\* of a '####' line
C8_Witness ==
  /\ pc = "done"
  /\ \E t \in Iterations : IsHeading(trace[t].from, 1) /\ trace[t].emitted = 1
  /\ \E t \in Iterations : IsHeading(trace[t].from, 2) /\ trace[t].emitted = 3
  /\ \E t \in Iterations :
       /\ LeadingHashes(Trimmed(trace[t].from)) >= 4
       /\ Emitted(t) = WholeLineParagraph(trace[t].from)

(***************************************************************************)
(* C9 as stated: whenever the table rule fires, the separator (the next    *)
(* line, which contains '---') is collected by that iteration and is never *)
(* examined on a turn of its own, whether or not it contains '|'.          *)
(***************************************************************************)
C9_SeparatorAlwaysCollected ==
  \A t \in Iterations :
    trace[t].kind = "Table" =>
      /\ (trace[t].from + 1) \in trace[t].used
      /\ ~Examined(trace[t].from + 1)

(***************************************************************************)
(* C9 as amended: whenever the table rule fires and the separator contains *)
(* '|', the separator is collected by that iteration and is never examined *)
(* on a turn of its own.                                                   *)
(***************************************************************************)
C9_PipedSeparatorCollected ==
  \A t \in Iterations :
    (trace[t].kind = "Table" /\ Contains(lines[trace[t].from + 2], Pipe)) =>
      /\ (trace[t].from + 1) \in trace[t].used
      /\ ~Examined(trace[t].from + 1)

\* a finished run in which a table start collected a piped separator and
\* a later line was examined
C9_Witness ==
  /\ pc = "done"
  /\ \E t \in Iterations :
       /\ trace[t].kind = "Table"
       /\ Contains(lines[trace[t].from + 2], Pipe)
       /\ (trace[t].from + 1) \in trace[t].used
       /\ t < Len(trace)

(***************************************************************************)
(* C10: every iteration moves the cursor forward by at least one line, so  *)
(* the loop ends after at most N iterations with N <= i <= N + 1, where    *)
(* i = N + 1 only after a code fence that is never closed.  Stated as: the *)
(* cursor only grows, and a run that has left the loop has left it through *)
(* the loop condition, within those bounds.                                *)
(***************************************************************************)
C10_LoopRunsToTheEnd ==
  /\ \A t \in Iterations : trace[t].from < trace[t].to
  /\ Len(trace) <= N
  /\ i <= N + 1
  /\ pc # "scan" =>
       /\ pc = "done"
       /\ N <= i
       /\ i = N + 1 =>
            /\ trace[Len(trace)].kind = "CodeBlock"
            /\ FenceClose(trace[Len(trace)].from) = N
====
